---- MODULE Spec2Model ----
(***************************************************************************)
(* Operation lifecycle of the Excel agent: the message list with one       *)
(* record per generated-code turn, the confirm / cancel / undo callbacks   *)
(* of App (src/src/main.rs), the buttons ChatView binds them to            *)
(* (src/src/components/chat_view.rs) and the snapshot / restore services   *)
(* (src/src/services/python.rs).                                           *)
(*                                                                         *)
(* The callbacks run on the single UI thread; a callback's synchronous     *)
(* part and every stretch of a spawned task between two awaits is one      *)
(* atomic action.  Message ids are 0-based as in the source; the record    *)
(* with id i is messages[i + 1].                                           *)
(***************************************************************************)
EXTENDS Integers, Sequences, FiniteSets, TLC

VARIABLES messages, active_files, retry_count, error_fix_signal,
          exec_tasks, undo_tasks, restore, run, batch, hot_undo, session

vars == <<messages, active_files, retry_count, error_fix_signal,
          exec_tasks, undo_tasks, restore, run, batch, hot_undo, session>>

\* The state of App: everything but the service calls looked at on their
\* own.
app_vars == <<messages, active_files, retry_count, error_fix_signal,
              exec_tasks, undo_tasks>>

\* The service calls looked at on their own: the workbook a restore works
\* on, one call of run_python_code, one call of create_batch_backups and
\* one undo from the restore script to the text put on the record, and the
\* process around App with its backup directory.
svc_vars == <<restore, run, batch, hot_undo, session>>

(* ------------------------------ bounds -------------------------------- *)
\* The full model (Spec).
MaxMsgs == 4
MaxLog == 4
MaxUndo == 2
\* The retry scenarios (SpecRetry): two operations, four runs each.
MaxMsgsRetry == 3
MaxLogRetry == 8
\* The cascade scenarios (SpecCascade): one file, three operations, one run
\* each, one undo at a time.
MaxMsgsCascade == 5
MaxLogCascade == 2
MaxUndoCascade == 1
\* Repair, then undo (SpecRepair): two files and one operation or one file
\* and two, three runs each.
MaxMsgsRepair == 4
MaxLogRepair == 6
MaxUndoRepair == 1
\* After the repairs are exhausted (SpecGiveUp).
MaxMsgsGiveUp == 2
MaxLogGiveUp == 12
\* The classifier (SpecRun): the pieces of one captured output.
MaxFragments == 3

(* --------------------------- program constants ------------------------ *)
MAX_RETRIES == 3

(* ------------------------------ value sets ---------------------------- *)
\* A path is <<directory, file name>>.
Paths == {<<"d", "a.xlsx">>, <<"d", "b.xlsx">>}
\* SystemTime::now() in milliseconds, as read by create_batch_backups.
Times == {100, 101}
\* The diagnostics a failed run returns; the retry scenarios tell two apart.
Diags == {"KeyError"}
DiagsRetry == {"KeyError", "Traceback"}
Outs == {"done"}

NoCode == "none"
GeneratedCode == "code"
RepairedCode == "fixed"

(* ------------------------------ models.rs ----------------------------- *)
St(tag) == [tag |-> tag, diag |-> ""]
Error(e) == [tag |-> "Error", diag |-> e]

NoBackup == [some |-> FALSE, pairs |-> <<>>]
SomeBackup(pairs) == [some |-> TRUE, pairs |-> pairs]

\* error_fix_signal is Option<String>; op names the record whose failure set
\* it, which is the record the repair is for.
NoSignal == [some |-> FALSE, op |-> 0, diag |-> ""]
SomeSignal(id, e) == [some |-> TRUE, op |-> id, diag |-> e]

\* One fragment appended to ChatMessage.text by push_str.
Entry(kind, n, s) == [kind |-> kind, n |-> n, s |-> s]

ChatMessage_new(id, kind) ==
    [id |-> id, text |-> <<Entry(kind, 0, "")>>, status |-> St("None"),
     pending_code |-> NoCode, backup_paths |-> NoBackup]

Ids == 0..(Len(messages) - 1)
Msg(id) == messages[id + 1]
Tag(id) == Msg(id).status.tag

(* ------------------------------ python.rs ----------------------------- *)
FileName(path) == path[2]
\* backups/<file name>.<timestamp>.bak
BackupPath(path, ts) == <<"backups", FileName(path), ts>>

\* No restore is being looked at.
RestoreIdle == [pc |-> "idle"]

\* No call of run_python_code is being looked at.
RunIdle == [pc |-> "idle"]

\* No call of create_batch_backups is being looked at.
BatchIdle == [pc |-> "idle"]

\* No undo is being looked at.
HotUndoIdle == [pc |-> "idle"]

\* The process around App is not being looked at.
SessionIdle == [pc |-> "idle"]

(* ------------------------------- Init --------------------------------- *)
Init ==
    /\ messages = <<ChatMessage_new(0, "welcome")>>
    /\ active_files = <<>>
    /\ retry_count = 0
    /\ error_fix_signal = NoSignal
    /\ exec_tasks = {}
    /\ undo_tasks = <<>>
    /\ restore = RestoreIdle
    /\ run = RunIdle
    /\ batch = BatchIdle
    /\ hot_undo = HotUndoIdle
    /\ session = SessionIdle

(* -------------------- main.rs: on_confirm (435-506) ------------------- *)
\* Variant: every confirmation snapshots again.
HasExistingBackup_Mut(msg) == FALSE

\* main.rs:445  let has_backup = msg.backup_paths.is_some();
HasExistingBackup(msg) == msg.backup_paths.some

\* Variant: a confirmed record goes to Running whatever it holds.
ConfirmStatus_Mut(msg) == [msg EXCEPT !.status = St("Running")]

\* main.rs:441-443  the record goes to Running only when it holds code.
ConfirmStatus(msg) ==
    IF msg.pending_code # NoCode THEN [msg EXCEPT !.status = St("Running")]
    ELSE msg

\* main.rs:456-458  a snapshot is taken when the record has none yet and
\* there are files in scope.
TakesSnapshot(has_backup, files) == ~has_backup /\ Len(files) > 0

\* The task spawned at main.rs:452, after its first poll: it is either
\* inside create_batch_backups (pc = "snap", k files done, the backup of
\* file k + 1 in flight) or inside run_python_code (pc = "exec").
NewTask(msg_id, code, files, has_backup, ts) ==
    [msg_id |-> msg_id, code |-> code, has_backup |-> has_backup,
     files |-> IF TakesSnapshot(has_backup, files) THEN files ELSE <<>>,
     pc |-> IF TakesSnapshot(has_backup, files) THEN "snap" ELSE "exec",
     k |-> 0,
     ts |-> IF TakesSnapshot(has_backup, files) THEN ts ELSE 0,
     backups |-> <<>>]

\* main.rs:437-449  the records after the synchronous part of on_confirm.
OnConfirmMessages(msgs, msg_id) ==
    [msgs EXCEPT ![msg_id + 1] = ConfirmStatus(msgs[msg_id + 1])]

\* main.rs:451-452  if let Some(code) = code_opt { spawn(..) }: the tasks
\* after the call.
OnConfirmTasks(msgs, msg_id, ts) ==
    LET msg == msgs[msg_id + 1]
        code == msg.pending_code
    IN  IF code # NoCode
        THEN exec_tasks \cup
             {NewTask(msg_id, code, active_files, HasExistingBackup(msg), ts)}
        ELSE exec_tasks

\* The synchronous part of on_confirm and the spawn.
OnConfirm(msgs, msg_id, ts) ==
    /\ messages' = OnConfirmMessages(msgs, msg_id)
    /\ exec_tasks' = OnConfirmTasks(msgs, msg_id, ts)

\* chat_view.rs:119-151  the confirm button exists for WaitingConfirmation
\* and the re-try button for Error.
ConfirmButtonShown(id) == Tag(id) \in {"WaitingConfirmation", "Error"}

\* Variant: a click runs the record without resetting the counter.
OnManualConfirm_Mut(id, cap) ==
    /\ ConfirmButtonShown(id)
    /\ Len(Msg(id).text) < cap
    /\ \E ts \in Times : OnConfirm(messages, id, ts)
    /\ UNCHANGED <<active_files, retry_count, error_fix_signal, undo_tasks, svc_vars>>

\* main.rs:509-512  on_manual_confirm, bound to both buttons.
OnManualConfirm(id, cap) ==
    /\ ConfirmButtonShown(id)
    /\ Len(Msg(id).text) < cap
    /\ retry_count' = 0
    /\ \E ts \in Times : OnConfirm(messages, id, ts)
    /\ UNCHANGED <<active_files, error_fix_signal, undo_tasks, svc_vars>>

(* ---------- python.rs: create_batch_backups (356-420), per file -------- *)
\* Variant: the loop stops after the first file.
SnapshotLoopDone_Mut(k, files) == k >= 1

\* python.rs:368-418  the loop goes on while files remain.
SnapshotLoopDone(k, files) == k >= Len(files)

\* python.rs:412-416  the pair is pushed when the copy ran and the backup
\* file exists.
PushBackup(backups, path, ts, ok) ==
    IF ok THEN Append(backups, <<path, BackupPath(path, ts)>>) ELSE backups

\* Variant: the result of the snapshot is written whatever it holds.
RecordBackups_Mut(msgs, msg_id, backups) ==
    [msgs EXCEPT ![msg_id + 1].backup_paths = SomeBackup(backups)]

\* main.rs:464-466  the record's backup_paths is written when the result is
\* not empty.
RecordBackups(msgs, msg_id, backups) ==
    IF Len(backups) > 0
    THEN [msgs EXCEPT ![msg_id + 1].backup_paths = SomeBackup(backups)]
    ELSE msgs

\* The backup of one file returns; after the last one the task records the
\* result and goes on to run the script (main.rs:464-472).
SnapshotStep(t, ok) ==
    /\ t \in exec_tasks
    /\ t.pc = "snap"
    /\ LET path == t.files[t.k + 1]
           backups == PushBackup(t.backups, path, t.ts, ok)
           k == t.k + 1
       IN  IF SnapshotLoopDone(k, t.files)
           THEN /\ messages' = RecordBackups(messages, t.msg_id, backups)
                /\ exec_tasks' = (exec_tasks \ {t}) \cup
                       {[t EXCEPT !.pc = "exec", !.k = k, !.backups = backups]}
           ELSE /\ messages' = messages
                /\ exec_tasks' = (exec_tasks \ {t}) \cup
                       {[t EXCEPT !.k = k, !.backups = backups]}
    /\ UNCHANGED <<active_files, retry_count, error_fix_signal, undo_tasks, svc_vars>>

(* ------------- main.rs: result handling of on_confirm (474-503) -------- *)
Ok(out) == [ok |-> TRUE, s |-> out]
Err(e) == [ok |-> FALSE, s |-> e]
ExecResults(diags) == {Ok(o) : o \in Outs} \cup {Err(e) : e \in diags}

\* Variant: one retry less.
CanRetry_MutLess(current_retries) == current_retries < MAX_RETRIES - 1

\* Variant: one retry more.
CanRetry_Mut(current_retries) == current_retries <= MAX_RETRIES

\* main.rs:486  if current_retries < MAX_RETRIES
CanRetry(current_retries) == current_retries < MAX_RETRIES

\* Variant: the result replaces the record's text.
OnSuccess_Mut(msg, out) ==
    [msg EXCEPT !.status = St("Success"),
                !.text = <<Entry("result", 0, out)>>]

\* main.rs:477-481
OnSuccess(msg, out) ==
    [msg EXCEPT !.status = St("Success"),
                !.text = Append(@, Entry("result", 0, out))]

\* Variant: a failure is logged but the status is left as it is.
OnFailure_Mut(msg, e, current_retries) ==
    [msg EXCEPT !.text = @ \o <<Entry("error", 0, e),
                               IF CanRetry(current_retries)
                               THEN Entry("repair", current_retries + 1, "")
                               ELSE Entry("giveup", MAX_RETRIES, "")>>]

\* main.rs:483-499
OnFailure(msg, e, current_retries) ==
    [msg EXCEPT !.status = Error(e),
                !.text = @ \o <<Entry("error", 0, e),
                               IF CanRetry(current_retries)
                               THEN Entry("repair", current_retries + 1, "")
                               ELSE Entry("giveup", MAX_RETRIES, "")>>]

\* Variant: every failure counts and asks for a repair, whatever the
\* counter holds.
ExecFinish_Mut(t, res) ==
    /\ t \in exec_tasks
    /\ t.pc = "exec"
    /\ exec_tasks' = exec_tasks \ {t}
    /\ IF res.ok
       THEN /\ messages' = [messages EXCEPT ![t.msg_id + 1] = OnSuccess(@, res.s)]
            /\ retry_count' = 0
            /\ UNCHANGED error_fix_signal
       ELSE /\ messages' = [messages EXCEPT
                               ![t.msg_id + 1] = OnFailure(@, res.s, retry_count)]
            /\ retry_count' = retry_count + 1
            /\ error_fix_signal' = SomeSignal(t.msg_id, res.s)
    /\ UNCHANGED <<active_files, undo_tasks, svc_vars>>

\* run_python_code returns and the task handles the result.
ExecFinish(t, res) ==
    /\ t \in exec_tasks
    /\ t.pc = "exec"
    /\ exec_tasks' = exec_tasks \ {t}
    /\ IF res.ok
       THEN /\ messages' = [messages EXCEPT ![t.msg_id + 1] = OnSuccess(@, res.s)]
            /\ retry_count' = 0
            /\ UNCHANGED error_fix_signal
       ELSE /\ messages' = [messages EXCEPT
                               ![t.msg_id + 1] = OnFailure(@, res.s, retry_count)]
            /\ IF CanRetry(retry_count)
               THEN /\ retry_count' = retry_count + 1
                    /\ error_fix_signal' = SomeSignal(t.msg_id, res.s)
               ELSE /\ retry_count' = 0
                    /\ UNCHANGED error_fix_signal
    /\ UNCHANGED <<active_files, undo_tasks, svc_vars>>

(* -------------------- main.rs: on_cancel (519-526) -------------------- *)
\* Variant: the cancel button is also there while the script runs.
CancelButtonShown_Mut(id) == Tag(id) \in {"WaitingConfirmation", "Running"}

\* chat_view.rs:131-135  the cancel button exists for WaitingConfirmation.
CancelButtonShown(id) == Tag(id) = "WaitingConfirmation"

\* Variant: a cancellation counts as a failed attempt and asks for a repair.
OnCancel_Mut(id) ==
    /\ CancelButtonShown(id)
    /\ messages' = [messages EXCEPT ![id + 1].status = St("Cancelled"),
                                    ![id + 1].pending_code = NoCode]
    /\ retry_count' = retry_count + 1
    /\ error_fix_signal' = SomeSignal(id, "cancelled")
    /\ UNCHANGED <<active_files, exec_tasks, undo_tasks, svc_vars>>

\* main.rs:519-526
OnCancel(id) ==
    /\ CancelButtonShown(id)
    /\ messages' = [messages EXCEPT ![id + 1].status = St("Cancelled"),
                                    ![id + 1].pending_code = NoCode]
    /\ retry_count' = 0
    /\ UNCHANGED <<active_files, error_fix_signal, exec_tasks, undo_tasks, svc_vars>>

(* --------------------- main.rs: on_undo (529-561) --------------------- *)
\* chat_view.rs:152-164  the undo button exists for Success with a snapshot.
UndoButtonShown(id) == Tag(id) = "Success" /\ Msg(id).backup_paths.some

\* main.rs:530-536  on_undo called for a record: the restore tasks after
\* the call.  A restore is spawned when the record has a snapshot set.
OnUndoTasks(id) ==
    IF Msg(id).backup_paths.some
    THEN Append(undo_tasks, [target |-> id, pairs |-> Msg(id).backup_paths.pairs])
    ELSE undo_tasks

\* main.rs:530-536  the messages after the call: the synchronous part only
\* reads them, on either branch.
OnUndoMessages(id) == messages

\* The synchronous part: read the pairs and spawn the restore.
OnUndo(id, maxUndo) ==
    /\ UndoButtonShown(id)
    /\ Len(undo_tasks) < maxUndo
    /\ undo_tasks' = OnUndoTasks(id)
    /\ messages' = OnUndoMessages(id)
    /\ UNCHANGED <<active_files, retry_count, error_fix_signal, exec_tasks, svc_vars>>

UndoResults == {Ok("restored"), Err("restore failed")}

\* Variant: the cascade also takes cancelled records.
CascadeMatches_MutCancelled(status) ==
    status.tag \in {"Success", "Running", "Cancelled"}

\* Variant: the cascade also takes failed records.
CascadeMatches_Mut(status) == status.tag \in {"Success", "Running", "Error"}

\* main.rs:546  matches!(m.status, Success | Running)
CascadeMatches(status) == status.tag \in {"Success", "Running"}

\* Variant: an undone record gives up its snapshot set.
CascadeMsg_Mut(m, i, target, res) ==
    IF CascadeMatches(m.status)
    THEN [m EXCEPT !.status = St("Undone"),
                   !.backup_paths = NoBackup,
                   !.text = Append(@, IF i = target
                                      THEN (IF res.ok THEN Entry("undo_ok", 0, res.s)
                                            ELSE Entry("undo_err", 0, res.s))
                                      ELSE Entry("cascade", 0, ""))]
    ELSE m

\* main.rs:546-556  one record of the cascade loop.
CascadeMsg(m, i, target, res) ==
    IF CascadeMatches(m.status)
    THEN [m EXCEPT !.status = St("Undone"),
                   !.text = Append(@, IF i = target
                                      THEN (IF res.ok THEN Entry("undo_ok", 0, res.s)
                                            ELSE Entry("undo_err", 0, res.s))
                                      ELSE Entry("cascade", 0, ""))]
    ELSE m

\* Variant: the loop starts at the first record.
Cascade_Mut(msgs, target, res) ==
    [i \in 1..Len(msgs) |-> CascadeMsg(msgs[i], i - 1, target, res)]

\* main.rs:544  for i in target_msg_id..len
Cascade(msgs, target, res) ==
    [i \in 1..Len(msgs) |->
        IF i - 1 >= target THEN CascadeMsg(msgs[i], i - 1, target, res) ELSE msgs[i]]

RemoveAt(seq, j) == [i \in 1..(Len(seq) - 1) |-> IF i < j THEN seq[i] ELSE seq[i + 1]]

\* run_batch_hot_undo returns and the task runs the cascade.
UndoFinish(j, res) ==
    /\ j \in 1..Len(undo_tasks)
    /\ messages' = Cascade(messages, undo_tasks[j].target, res)
    /\ undo_tasks' = RemoveAt(undo_tasks, j)
    /\ UNCHANGED <<active_files, retry_count, error_fix_signal, exec_tasks, svc_vars>>

(* ------------- main.rs: the file list (397-417, 563-571) -------------- *)
Contains(seq, x) == \E i \in 1..Len(seq) : seq[i] = x

\* Variant: the new record is numbered from one.
AddFile_Mut(path, maxMsgs) ==
    /\ ~Contains(active_files, path)
    /\ Len(messages) < maxMsgs
    /\ messages' = Append(messages, ChatMessage_new(Len(messages) + 1, "file"))
    /\ active_files' = Append(active_files, path)
    /\ UNCHANGED <<retry_count, error_fix_signal, exec_tasks, undo_tasks, svc_vars>>

\* main.rs:397-417  a dropped or picked file that is not yet in the list.
AddFile(path, maxMsgs) ==
    /\ ~Contains(active_files, path)
    /\ Len(messages) < maxMsgs
    /\ messages' = Append(messages, ChatMessage_new(Len(messages), "file"))
    /\ active_files' = Append(active_files, path)
    /\ UNCHANGED <<retry_count, error_fix_signal, exec_tasks, undo_tasks, svc_vars>>

Retain(seq, path) == SelectSeq(seq, LAMBDA f : f # path)

\* main.rs:563-566
RemoveFile(path) ==
    /\ Contains(active_files, path)
    /\ active_files' = Retain(active_files, path)
    /\ UNCHANGED <<messages, retry_count, error_fix_signal, exec_tasks, undo_tasks, svc_vars>>

\* main.rs:569-571
ClearAllFiles ==
    /\ Len(active_files) > 0
    /\ active_files' = <<>>
    /\ UNCHANGED <<messages, retry_count, error_fix_signal, exec_tasks, undo_tasks, svc_vars>>

(* ------------------- the code generation collaborator ------------------ *)
\* A generated script arrives: a new record awaiting confirmation.  New
\* submissions are disabled while a record is Running.
NewOperation(maxMsgs) ==
    /\ Len(messages) < maxMsgs
    /\ \A id \in Ids : Tag(id) # "Running"
    /\ messages' = Append(messages,
          [ChatMessage_new(Len(messages), "reply") EXCEPT
              !.status = St("WaitingConfirmation"),
              !.pending_code = GeneratedCode])
    /\ UNCHANGED <<active_files, retry_count, error_fix_signal, exec_tasks, undo_tasks, svc_vars>>

\* The repair signalled for a failed record: the signal is consumed, the
\* corrected script replaces the record's code and main.rs:515-517
\* (on_auto_run) runs it without asking.
OnAutoRun(id, cap) ==
    /\ error_fix_signal.some
    /\ error_fix_signal.op = id
    /\ Tag(id) = "Error"
    /\ Len(Msg(id).text) < cap
    /\ error_fix_signal' = NoSignal
    /\ \E ts \in Times :
          OnConfirm([messages EXCEPT ![id + 1].pending_code = RepairedCode], id, ts)
    /\ UNCHANGED <<active_files, retry_count, undo_tasks, svc_vars>>

(* ------------------------------- Next --------------------------------- *)
Next ==
    \/ NewOperation(MaxMsgs)
    \/ \E p \in Paths : AddFile(p, MaxMsgs)
    \/ \E p \in Paths : RemoveFile(p)
    \/ ClearAllFiles
    \/ \E id \in Ids : OnManualConfirm(id, MaxLog)
    \/ \E id \in Ids : OnAutoRun(id, MaxLog)
    \/ \E id \in Ids : OnCancel(id)
    \/ \E id \in Ids : OnUndo(id, MaxUndo)
    \/ \E t \in exec_tasks, ok \in BOOLEAN : SnapshotStep(t, ok)
    \/ \E t \in exec_tasks, res \in ExecResults(Diags) : ExecFinish(t, res)
    \/ \E j \in 1..Len(undo_tasks), res \in UndoResults : UndoFinish(j, res)

Spec == Init /\ [][Next]_vars

(* ---------------------- scenario specifications ----------------------- *)
\* The first confirmation of a record: the confirm button, not the re-try
\* button.
OnFirstConfirm(id, cap) ==
    /\ Tag(id) = "WaitingConfirmation"
    /\ OnManualConfirm(id, cap)

\* The retry controller alone: no files (so no snapshots and no undo), two
\* operations, each confirmed by hand once, repaired automatically after.
NextRetry ==
    \/ NewOperation(MaxMsgsRetry)
    \/ \E id \in Ids : OnFirstConfirm(id, MaxLogRetry)
    \/ \E id \in Ids : OnAutoRun(id, MaxLogRetry)
    \/ \E id \in Ids : OnCancel(id)
    \/ \E t \in exec_tasks, res \in ExecResults(DiagsRetry) : ExecFinish(t, res)

SpecRetry == Init /\ [][NextRetry]_vars

\* The rollback coordinator over three operations that each run once.
NextCascade ==
    \/ NewOperation(MaxMsgsCascade)
    \/ \E p \in Paths : AddFile(p, MaxMsgsCascade)
    \/ \E id \in Ids : OnFirstConfirm(id, MaxLogCascade)
    \/ \E id \in Ids : OnCancel(id)
    \/ \E id \in Ids : OnUndo(id, MaxUndoCascade)
    \/ \E t \in exec_tasks, ok \in BOOLEAN : SnapshotStep(t, ok)
    \/ \E t \in exec_tasks, res \in ExecResults(Diags) : ExecFinish(t, res)
    \/ \E j \in 1..Len(undo_tasks), res \in UndoResults : UndoFinish(j, res)

SpecCascade == Init /\ [][NextCascade]_vars

\* Progress of the spawned tasks: files, operations confirmed or re-tried by
\* hand and repaired automatically, cancelled and undone while tasks are in
\* flight.
MaxMsgsLive == 3
MaxLogLive == 4
MaxUndoLive == 1

NextLive ==
    \/ NewOperation(MaxMsgsLive)
    \/ \E p \in Paths : AddFile(p, MaxMsgsLive)
    \/ \E id \in Ids : OnManualConfirm(id, MaxLogLive)
    \/ \E id \in Ids : OnAutoRun(id, MaxLogLive)
    \/ \E id \in Ids : OnCancel(id)
    \/ \E id \in Ids : OnUndo(id, MaxUndoLive)
    \/ \E t \in exec_tasks, ok \in BOOLEAN : SnapshotStep(t, ok)
    \/ \E t \in exec_tasks, res \in ExecResults(Diags) : ExecFinish(t, res)
    \/ \E j \in 1..Len(undo_tasks), res \in UndoResults : UndoFinish(j, res)

\* main.rs:452-472  every bridge call returns and the spawned task of a
\* record is polled again: its snapshot goes on and its run is handled.
FairnessLive ==
    \A id \in 0..(MaxMsgsLive - 1) :
        /\ WF_vars(\E t \in exec_tasks, ok \in BOOLEAN :
                      t.msg_id = id /\ SnapshotStep(t, ok))
        /\ WF_vars(\E t \in exec_tasks, res \in ExecResults(Diags) :
                      t.msg_id = id /\ ExecFinish(t, res))

SpecLive == Init /\ [][NextLive]_vars /\ FairnessLive

\* After the repairs are exhausted: one operation, confirmed, repaired
\* automatically and re-tried by hand, up to six runs.
NextGiveUp ==
    \/ NewOperation(MaxMsgsGiveUp)
    \/ \E id \in Ids : OnManualConfirm(id, MaxLogGiveUp)
    \/ \E id \in Ids : OnAutoRun(id, MaxLogGiveUp)
    \/ \E id \in Ids : OnCancel(id)
    \/ \E t \in exec_tasks, res \in ExecResults(Diags) : ExecFinish(t, res)

SpecGiveUp == Init /\ [][NextGiveUp]_vars

\* A file arrives before any operation has been generated.
AddFileFirst(path, cap) ==
    /\ \A id \in Ids : Tag(id) = "None"
    /\ AddFile(path, cap)

\* Repair, then undo: the files are in scope before the operation is
\* generated; the operation is confirmed once, repaired automatically and
\* undone.
NextRepair ==
    \/ NewOperation(MaxMsgsRepair)
    \/ \E p \in Paths : AddFileFirst(p, MaxMsgsRepair)
    \/ \E id \in Ids : OnFirstConfirm(id, MaxLogRepair)
    \/ \E id \in Ids : OnAutoRun(id, MaxLogRepair)
    \/ \E id \in Ids : OnUndo(id, MaxUndoRepair)
    \/ \E t \in exec_tasks, ok \in BOOLEAN : SnapshotStep(t, ok)
    \/ \E t \in exec_tasks, res \in ExecResults(Diags) : ExecFinish(t, res)
    \/ \E j \in 1..Len(undo_tasks), res \in UndoResults : UndoFinish(j, res)

SpecRepair == Init /\ [][NextRepair]_vars

(* ------- python.rs: run_batch_hot_undo (432-539), one restore pair ------ *)
\* A workbook maps each sheet name to the sheet it holds, if any.  Sheets
\* are visited in SheetOrder.
SheetOrder == <<"Sheet1", "Sheet2">>
Sheets == {SheetOrder[i] : i \in 1..Len(SheetOrder)}
\* The contents of a sheet: the cells of column A from row 1 down, "" for an
\* empty cell.
NoCells == <<"", "">>
CellData == {<<"old", "">>, <<"new", "">>, <<"", "old">>}

Absent == [present |-> FALSE, data |-> NoCells, color |-> "none"]
Sheet(d) == [present |-> TRUE, data |-> d, color |-> "none"]
Workbooks ==
    {wb \in [Sheets -> {Absent} \cup {Sheet(d) : d \in CellData}] :
        \E sh \in Sheets : wb[sh].present}

SheetNames(wb) == {sh \in Sheets : wb[sh].present}

\* The sheets of a workbook in order (for s_bak in wb_backup.sheets).
SheetSeq(wb) == SelectSeq(SheetOrder, LAMBDA sh : wb[sh].present)

\* Excel's UsedRange: the cells from the first used one to the last used
\* one; cell A1 alone for an empty sheet.
UsedRange(cells) ==
    LET used == {i \in 1..Len(cells) : cells[i] # ""}
    IN  IF used = {} THEN SubSeq(cells, 1, 1)
        ELSE SubSeq(cells, CHOOSE i \in used : \A j \in used : i <= j,
                           CHOOSE i \in used : \A j \in used : i >= j)

\* python.rs:485-486  s_tgt.clear(); range.copy(s_tgt.range('A1')): the
\* copied cells are laid down from A1 on a cleared sheet.
CopyToA1(range) ==
    [i \in 1..Len(NoCells) |-> IF i <= Len(range) THEN range[i] ELSE ""]

\* python.rs:477-491  the target sheet is looked up or added, cleared and
\* overwritten from the backup; its tab is turned green unless that write
\* raises, which is ignored.
RestoredSheet(tgt_sheet, bak_sheet, tab_ok) ==
    [present |-> TRUE, data |-> CopyToA1(UsedRange(bak_sheet.data)),
     color |-> IF tab_ok THEN "green" ELSE tgt_sheet.color]

\* python.rs:497-501  extra_sheets = set(tgt_sheets) - set(bak_sheets)
ExtraSheets(target, backup) == SheetNames(target) \ SheetNames(backup)

\* Variant: an extra sheet is deleted.
FlagExtra_Mut(sheet, tab_ok) == Absent

\* python.rs:504-508  an extra sheet is kept; its tab is turned red unless
\* that write raises, which is ignored.
FlagExtra(sheet, tab_ok) == IF tab_ok THEN [sheet EXCEPT !.color = "red"] ELSE sheet

RestoreLog(kind, extras) == [kind |-> kind, extras |-> extras]

\* The inputs of one restore: whether a live session holds the target open,
\* the live workbook and the backup.
RestoreInputs ==
    {[pc |-> "start", open |-> o, live0 |-> t, target |-> t, backup |-> b,
      i |-> 0, log |-> <<>>] : o \in BOOLEAN, t \in Workbooks, b \in Workbooks}

\* python.rs:446-468  find the live workbook; open the backup beside it.
RestoreConnect(opened) ==
    /\ restore.pc = "start"
    /\ restore' =
          IF ~restore.open
          THEN [restore EXCEPT !.pc = "done",
                               !.log = Append(@, RestoreLog("skipped", {}))]
          ELSE IF ~opened
          THEN [restore EXCEPT !.pc = "done",
                               !.log = Append(@, RestoreLog("failed", {}))]
          ELSE [restore EXCEPT !.pc = "sheets"]
    /\ UNCHANGED <<app_vars, run, batch, hot_undo, session>>

\* python.rs:473-493  one turn of the loop over the backup's sheets; an
\* exception leaves the loop through the handler at 530-531.
RestoreSheetStep(raised, tab_ok) ==
    /\ restore.pc = "sheets"
    /\ restore.i < Len(SheetSeq(restore.backup))
    /\ LET sh == SheetSeq(restore.backup)[restore.i + 1]
       IN  restore' =
              IF raised
              THEN [restore EXCEPT !.pc = "done",
                                   !.log = Append(@, RestoreLog("failed", {}))]
              ELSE [restore EXCEPT
                       !.target[sh] = RestoredSheet(@, restore.backup[sh], tab_ok),
                       !.i = @ + 1]
    /\ UNCHANGED <<app_vars, run, batch, hot_undo, session>>

\* python.rs:497-523  the audit of extra sheets and the feedback message;
\* tab_failed are the sheets whose tab colour cannot be written, and closing
\* the backup may raise (handler at 530-531).
RestoreAudit(tab_failed, closed) ==
    /\ restore.pc = "sheets"
    /\ restore.i = Len(SheetSeq(restore.backup))
    /\ LET extras == ExtraSheets(restore.target, restore.backup)
       IN  restore' =
              [restore EXCEPT
                  !.pc = "done",
                  !.target = [sh \in Sheets |->
                                 IF sh \in extras
                                 THEN FlagExtra(restore.target[sh], sh \notin tab_failed)
                                 ELSE restore.target[sh]],
                  !.log = Append(@, IF closed THEN RestoreLog("restored", extras)
                                    ELSE RestoreLog("failed", {}))]
    /\ UNCHANGED <<app_vars, run, batch, hot_undo, session>>

InitRestore ==
    /\ messages = <<ChatMessage_new(0, "welcome")>>
    /\ active_files = <<>>
    /\ retry_count = 0
    /\ error_fix_signal = NoSignal
    /\ exec_tasks = {}
    /\ undo_tasks = <<>>
    /\ restore \in RestoreInputs
    /\ run = RunIdle
    /\ batch = BatchIdle
    /\ hot_undo = HotUndoIdle
    /\ session = SessionIdle

NextRestore ==
    \/ \E opened \in BOOLEAN : RestoreConnect(opened)
    \/ \E raised, tab_ok \in BOOLEAN : RestoreSheetStep(raised, tab_ok)
    \/ \E tab_failed \in SUBSET Sheets, closed \in BOOLEAN : RestoreAudit(tab_failed, closed)

SpecRestore == InitRestore /\ [][NextRestore]_vars

(* ---------- python.rs: run_python_code (145-233), one call ------------- *)
\* Text is a sequence of characters.
UpperLetters ==
    <<"A", "B", "C", "D", "E", "F", "G", "H", "I", "J", "K", "L", "M",
      "N", "O", "P", "Q", "R", "S", "T", "U", "V", "W", "X", "Y", "Z">>
LowerLetters ==
    <<"a", "b", "c", "d", "e", "f", "g", "h", "i", "j", "k", "l", "m",
      "n", "o", "p", "q", "r", "s", "t", "u", "v", "w", "x", "y", "z">>

LowerChar(c) ==
    IF \E i \in 1..Len(UpperLetters) : UpperLetters[i] = c
    THEN LowerLetters[CHOOSE i \in 1..Len(UpperLetters) : UpperLetters[i] = c]
    ELSE c

\* Variant: the text is compared as it is.
ToLowercase_Mut(str) == str

\* python.rs:200  stdout_str.to_lowercase()
ToLowercase(str) == [i \in 1..Len(str) |-> LowerChar(str[i])]

\* str::contains
StrContains(hay, needle) ==
    \E i \in 0..(Len(hay) - Len(needle)) : SubSeq(hay, i + 1, i + Len(needle)) = needle

\* Variant: the list without "failed to" and the domain markers.
error_keywords_Mut ==
    <<<<"e", "r", "r", "o", "r", ":">>,
      <<"e", "x", "c", "e", "p", "t", "i", "o", "n", ":">>,
      <<"t", "r", "a", "c", "e", "b", "a", "c", "k", " ", "(", "m", "o", "s", "t">>,
      <<"a", "t", "t", "r", "i", "b", "u", "t", "e", "e", "r", "r", "o", "r">>,
      <<"k", "e", "y", "e", "r", "r", "o", "r">>,
      <<"v", "a", "l", "u", "e", "e", "r", "r", "o", "r">>>>

\* python.rs:202-212
error_keywords ==
    <<<<"e", "r", "r", "o", "r", ":">>,
      <<"e", "x", "c", "e", "p", "t", "i", "o", "n", ":">>,
      <<"t", "r", "a", "c", "e", "b", "a", "c", "k", " ", "(", "m", "o", "s", "t">>,
      <<"f", "a", "i", "l", "e", "d", " ", "t", "o">>,
      <<"a", "t", "t", "r", "i", "b", "u", "t", "e", "e", "r", "r", "o", "r">>,
      <<"k", "e", "y", "e", "r", "r", "o", "r">>,
      <<"v", "a", "l", "u", "e", "e", "r", "r", "o", "r">>,
      <<"n", "o", "t", " ", "f", "o", "u", "n", "d">>,
      <<"U+274C">>>>

\* python.rs:155-161  stderr_capture is created but sys.stderr is set to
\* stdout_capture: the script's error stream goes to the stdout buffer and
\* stderr_str (python.rs:172-176) is always empty.
StderrStr == <<>>

\* python.rs:188-197  words looked for in a non-empty stderr_str.
StderrKeywords ==
    {<<"e", "r", "r", "o", "r">>,
     <<"e", "x", "c", "e", "p", "t", "i", "o", "n">>,
     <<"t", "r", "a", "c", "e", "b", "a", "c", "k">>}

StderrFlagged(stderr_str) ==
    /\ Len(stderr_str) > 0
    /\ \E kw \in StderrKeywords : StrContains(ToLowercase(stderr_str), kw)

\* How the bridge ends: the script ran through, py.run returned an
\* exception, or the blocking task itself failed.
HardErrors == {"none", "exception", "task"}

\* python.rs:178-232  the result of one call.
run_python_code(hard, stdout_str, stderr_str) ==
    IF hard = "task" THEN Err(<<"System Task Error">>)
    ELSE IF hard = "exception" THEN Err(<<"Runtime Exception">> \o stderr_str)
    ELSE IF StderrFlagged(stderr_str)
    THEN Err(<<"Detected Error in Stderr">> \o stderr_str)
    ELSE IF \E k \in 1..Len(error_keywords) :
               StrContains(ToLowercase(stdout_str), error_keywords[k])
    THEN Err(stdout_str)
    ELSE Ok(stdout_str)

\* What a script prints: up to MaxFragments pieces, one after the other.
Fragments ==
    {<<"T", "r", "a", "c", "e", "b", "a", "c", "k", " ", "(", "m", "o", "s", "t">>,
     <<"T", "R", "A", "C", "E", "B", "A", "C", "K", " ", "(", "M", "O", "S", "T">>,
     <<"T", "r", "a", "c", "e">>,
     <<"b", "a", "c", "k", " ", "(", "m", "o", "s", "t">>,
     <<"d", "o", "n", "e">>,
     <<"E", "r", "r", "o", "r">>,
     <<":">>,
     <<"K", "e", "y", "E", "r", "r", "o", "r">>,
     <<"n", "o", "t">>,
     <<" ", "f", "o", "u", "n", "d">>,
     <<"U+274C">>,
     <<"F", "a", "i", "l", "e", "d", " ", "t", "o">>,
     <<" ">>}

RECURSIVE Flatten(_)
Flatten(pieces) ==
    IF Len(pieces) = 0 THEN <<>> ELSE Head(pieces) \o Flatten(Tail(pieces))

Outputs ==
    {Flatten(pieces) : pieces \in UNION {[1..n -> Fragments] : n \in 0..MaxFragments}}

NoResult == [ok |-> FALSE, s |-> <<>>]

\* How many of the last pieces a script writes go to its error stream.
ErrPieces == {0, 1}

\* python.rs:158-161  sys.stdout and sys.stderr are both set to
\* stdout_capture: the buffer holds what the script wrote to either stream.
\* Of the pieces a script writes, the first ones go to its output stream
\* and the last n to its error stream.
ScriptWrites ==
    {[stdout |-> Flatten(pieces),
      stderr |-> Flatten(IF n >= Len(pieces) THEN pieces
                         ELSE SubSeq(pieces, Len(pieces) - n + 1, Len(pieces)))] :
        pieces \in UNION {[1..m -> Fragments] : m \in 0..MaxFragments},
        n \in ErrPieces}

\* One call: stdout is the content of stdout_capture when the script ends,
\* stderr the part of it that the script wrote to sys.stderr.
RunInputs ==
    {[pc |-> "start", hard |-> h, stdout |-> w.stdout, stderr |-> w.stderr,
      result |-> NoResult] :
        h \in HardErrors, w \in ScriptWrites}

\* The call returns.
RunReturn ==
    /\ run.pc = "start"
    /\ run' = [run EXCEPT !.pc = "done",
                          !.result = run_python_code(run.hard, run.stdout, StderrStr)]
    /\ UNCHANGED <<app_vars, restore, batch, hot_undo, session>>

InitRun ==
    /\ messages = <<ChatMessage_new(0, "welcome")>>
    /\ active_files = <<>>
    /\ retry_count = 0
    /\ error_fix_signal = NoSignal
    /\ exec_tasks = {}
    /\ undo_tasks = <<>>
    /\ restore = RestoreIdle
    /\ run \in RunInputs
    /\ batch = BatchIdle
    /\ hot_undo = HotUndoIdle
    /\ session = SessionIdle

NextRun == RunReturn

SpecRun == InitRun /\ [][NextRun]_vars

(* ------- python.rs: create_batch_backups on its own (356-420) ---------- *)
\* The most files one call is given.
MaxFiles == 3

\* The files of one call: two of them carry the same file name in different
\* directories.
BatchPaths == {<<"d1", "a.xlsx">>, <<"d2", "a.xlsx">>, <<"d1", "b.xlsx">>}

\* main.rs:397-417  the list on_confirm passes holds no path twice.
NoDuplicates(seq) == \A i, j \in 1..Len(seq) : seq[i] = seq[j] => i = j

TargetPaths ==
    {seq \in UNION {[1..n -> BatchPaths] : n \in 0..MaxFiles} : NoDuplicates(seq)}

\* python.rs:381-406, 412  what the copy script of one file does: it writes
\* the backup file; or the copy raises and the script swallows it
\* (except: pass); or the import at the top of the script raises and
\* run_python_code returns Err.
CopyOutcomes == {"copied", "swallowed", "import_failed"}

\* python.rs:412  if let Ok(_) = run_python_code(&code).await
CopyRunOk(outcome) == outcome # "import_failed"

\* python.rs:357-366  the call starts with no pair; disk is the set of
\* backup files that exist, written the files of target_paths whose backup
\* this call wrote, one flag per file done.
BatchInputs ==
    {[pc |-> "loop", target_paths |-> tp, timestamp |-> ts, k |-> 0,
      backups |-> <<>>, disk |-> {}, written |-> <<>>] :
        tp \in TargetPaths, ts \in Times}

\* python.rs:368-418  one round of the loop: the copy script of the next
\* file has run.
BackupFile(outcome) ==
    /\ batch.pc = "loop"
    /\ ~SnapshotLoopDone(batch.k, batch.target_paths)
    /\ LET path == batch.target_paths[batch.k + 1]
           backup_path == BackupPath(path, batch.timestamp)
           disk == IF outcome = "copied" THEN batch.disk \cup {backup_path}
                   ELSE batch.disk
       IN  batch' = [batch EXCEPT
                        !.k = @ + 1,
                        !.disk = disk,
                        !.written = Append(@, outcome = "copied"),
                        !.backups = PushBackup(@, path, batch.timestamp,
                                               CopyRunOk(outcome) /\ backup_path \in disk)]
    /\ UNCHANGED <<app_vars, restore, run, hot_undo, session>>

\* python.rs:419  the loop is over and the call returns backups.
BackupsReturn ==
    /\ batch.pc = "loop"
    /\ SnapshotLoopDone(batch.k, batch.target_paths)
    /\ batch' = [batch EXCEPT !.pc = "returned"]
    /\ UNCHANGED <<app_vars, restore, run, hot_undo, session>>

InitBatch ==
    /\ messages = <<ChatMessage_new(0, "welcome")>>
    /\ active_files = <<>>
    /\ retry_count = 0
    /\ error_fix_signal = NoSignal
    /\ exec_tasks = {}
    /\ undo_tasks = <<>>
    /\ restore = RestoreIdle
    /\ run = RunIdle
    /\ batch \in BatchInputs
    /\ hot_undo = HotUndoIdle
    /\ session = SessionIdle

NextBatch ==
    \/ \E outcome \in CopyOutcomes : BackupFile(outcome)
    \/ BackupsReturn

SpecBatch == InitBatch /\ [][NextBatch]_vars

(* --- python.rs: run_batch_hot_undo over its pairs (432-539), and the --- *)
(* --- text on_undo puts on the target record (main.rs:538-552) ---------- *)
\* The most pairs one undo is given.
MaxPairs == 2

\* main.rs:531-536  the pairs of a record: the backups of one call of
\* create_batch_backups, at least one, no file twice.
RestorePairs ==
    {[i \in 1..Len(tp) |-> <<tp[i], BackupPath(tp[i], ts)>>] :
        tp \in {seq \in UNION {[1..n -> BatchPaths] : n \in 1..MaxPairs} :
                   NoDuplicates(seq)},
        ts \in Times}

\* How the body of the loop ends for one pair: the file is not open
\* (python.rs:455-457), the restore goes through (python.rs:511-523), or
\* something raises and the handler at python.rs:530-531 takes it.
PairOutcomes == {"skipped", "restored", "failed"}

\* python.rs:456, 511, 531  the line logged for a pair names the file by
\* os.path.basename(target_file).
PairEntry(outcome, target_file) == [kind |-> outcome, file |-> FileName(target_file)]

\* The line as printed: the glyph that opens it and the file name.
RenderEntry(entry) ==
    <<CASE entry.kind = "skipped" -> "U+26A0"
        [] entry.kind = "restored" -> "U+2705"
        [] OTHER -> "U+274C",
      entry.file>>

\* python.rs:533  print("\n".join(log))
RenderLog(log) ==
    Flatten([i \in 1..Len(log) |->
                IF i = 1 THEN RenderEntry(log[i]) ELSE <<"\n">> \o RenderEntry(log[i])])

\* What the loop body leaves of the file of a pair: the backup's contents,
\* the contents it had, or some sheets of each when the restore raised on
\* the way.
FileAfter(outcome, raised_late) ==
    CASE outcome = "restored" -> "restored"
      [] outcome = "skipped" -> "changed"
      [] OTHER -> IF raised_late THEN "partial" ELSE "changed"

\* Variant: a failed undo reports only that it failed.
UndoAppended_Mut(res) ==
    IF res.ok THEN <<"\n\n">> \o res.s ELSE <<"\n", "U+274C", "undo failed">>

\* main.rs:549-552  the text pushed on the target record.
UndoAppended(res) ==
    IF res.ok THEN <<"\n\n">> \o res.s
    ELSE <<"\n", "U+274C", "undo failed: ">> \o res.s

HotUndoInputs ==
    {[pc |-> "loop", pairs |-> rp, k |-> 0, log |-> <<>>, files |-> <<>>,
      result |-> NoResult, appended |-> <<>>] : rp \in RestorePairs}

\* python.rs:443-531  one turn of the loop over the pairs.
HotUndoPair(outcome, raised_late) ==
    /\ hot_undo.pc = "loop"
    /\ hot_undo.k < Len(hot_undo.pairs)
    /\ hot_undo' = [hot_undo EXCEPT
                       !.k = @ + 1,
                       !.log = Append(@, PairEntry(outcome, hot_undo.pairs[hot_undo.k + 1][1])),
                       !.files = Append(@, FileAfter(outcome, raised_late))]
    /\ UNCHANGED <<app_vars, restore, run, batch, session>>

\* python.rs:533-538  the log is printed and run_python_code classifies
\* the output; every statement of the script after its imports is inside
\* the try of a pair, so the script runs to completion.
HotUndoReturn ==
    /\ hot_undo.pc = "loop"
    /\ hot_undo.k = Len(hot_undo.pairs)
    /\ hot_undo' = [hot_undo EXCEPT
                       !.pc = "returned",
                       !.result = run_python_code("none", RenderLog(hot_undo.log), StderrStr)]
    /\ UNCHANGED <<app_vars, restore, run, batch, session>>

\* main.rs:540-552  the task puts the outcome on the target record.
HotUndoReport ==
    /\ hot_undo.pc = "returned"
    /\ hot_undo' = [hot_undo EXCEPT !.pc = "reported",
                                    !.appended = UndoAppended(hot_undo.result)]
    /\ UNCHANGED <<app_vars, restore, run, batch, session>>

InitHotUndo ==
    /\ messages = <<ChatMessage_new(0, "welcome")>>
    /\ active_files = <<>>
    /\ retry_count = 0
    /\ error_fix_signal = NoSignal
    /\ exec_tasks = {}
    /\ undo_tasks = <<>>
    /\ restore = RestoreIdle
    /\ run = RunIdle
    /\ batch = BatchIdle
    /\ hot_undo \in HotUndoInputs
    /\ session = SessionIdle

NextHotUndo ==
    \/ \E outcome \in PairOutcomes, raised_late \in BOOLEAN : HotUndoPair(outcome, raised_late)
    \/ HotUndoReturn
    \/ HotUndoReport

SpecHotUndo == InitHotUndo /\ [][NextHotUndo]_vars

(* ---- main.rs: main (31-80) and python.rs: cleanup_backups (121-133) ---- *)
\* The backup files the directory may hold, from this session or an
\* earlier one.
BackupFiles == {"a.xlsx.100.bak", "a.xlsx.101.bak", "b.xlsx.100.bak"}

\* The directory "backups": whether it exists, the files in it, and the
\* files a spreadsheet application holds open (python.rs:469 opens the
\* backup workbook, and only the success path closes it, python.rs:510).
Dirs ==
    { [exists |-> e, files |-> f, held |-> h] :
        e \in BOOLEAN, f \in SUBSET BackupFiles, h \in SUBSET BackupFiles }

\* A directory that can be found on disk.
DirsOnDisk == { d \in Dirs : d.held \subseteq d.files /\ (d.files # {} => d.exists) }

\* python.rs:125  fs::remove_dir_all: the entries go one by one and the call
\* stops at the first one that cannot be removed; with none held open the
\* directory goes too.
RemoveDirAll(dir) ==
    IF dir.held = {}
    THEN { [dir EXCEPT !.exists = FALSE, !.files = {}] }
    ELSE { [dir EXCEPT !.files = r] :
             r \in { r \in SUBSET dir.files : dir.held \subseteq r } }

\* python.rs:128  fs::create_dir_all: Ok on a directory that is there, else
\* it is made or the call fails.
CreateDirAll(dir, ok) ==
    IF dir.exists \/ ok THEN [dir EXCEPT !.exists = TRUE] ELSE dir

\* main.rs:36  the process starts with whatever an earlier session left.
InitSession ==
    /\ messages = <<ChatMessage_new(0, "welcome")>>
    /\ active_files = <<>>
    /\ retry_count = 0
    /\ error_fix_signal = NoSignal
    /\ exec_tasks = {}
    /\ undo_tasks = <<>>
    /\ restore = RestoreIdle
    /\ run = RunIdle
    /\ batch = BatchIdle
    /\ hot_undo = HotUndoIdle
    /\ session \in { [pc |-> "call", site |-> "start", dir |-> d, before |-> d.files] :
                       d \in DirsOnDisk }

\* python.rs:124-126  if backup_dir.exists() { let _ = fs::remove_dir_all(..) }
CleanupRemove ==
    /\ session.pc = "call"
    /\ \E d \in (IF session.dir.exists THEN RemoveDirAll(session.dir) ELSE {session.dir}) :
          session' = [session EXCEPT !.pc = "removed", !.dir = d]
    /\ UNCHANGED <<app_vars, restore, run, batch, hot_undo>>

\* python.rs:128-132  the directory is made again; a failure is printed and
\* the function returns all the same.
CleanupCreate(ok) ==
    /\ session.pc = "removed"
    /\ session' = [session EXCEPT !.pc = "returned", !.dir = CreateDirAll(@, ok)]
    /\ UNCHANGED <<app_vars, restore, run, batch, hot_undo>>

\* main.rs:39-77  the hook is set and the window is launched; after the
\* cleanup at exit or in the hook the process is over.
AfterCleanup ==
    /\ session.pc = "returned"
    /\ session' = [session EXCEPT !.pc = IF session.site = "start" THEN "running" ELSE "over"]
    /\ UNCHANGED <<app_vars, restore, run, batch, hot_undo>>

\* python.rs:358-361, 375-415  a snapshot makes the directory when it is not
\* there and copies a file into it.
WriteBackup(f) ==
    /\ session.pc = "running"
    /\ f \notin session.dir.files
    /\ session' = [session EXCEPT !.dir.exists = TRUE, !.dir.files = @ \cup {f}]
    /\ UNCHANGED <<app_vars, restore, run, batch, hot_undo>>

\* python.rs:469  an undo opens the backup workbook.
OpenBackup(f) ==
    /\ session.pc = "running"
    /\ f \in session.dir.files \ session.dir.held
    /\ session' = [session EXCEPT !.dir.held = @ \cup {f}]
    /\ UNCHANGED <<app_vars, restore, run, batch, hot_undo>>

\* python.rs:510  wb_backup.close()
CloseBackup(f) ==
    /\ session.pc = "running"
    /\ f \in session.dir.held
    /\ session' = [session EXCEPT !.dir.held = @ \ {f}]
    /\ UNCHANGED <<app_vars, restore, run, batch, hot_undo>>

\* main.rs:40-42  a panic runs the hook, which cleans up.
Panic ==
    /\ session.pc = "running"
    /\ session' = [session EXCEPT !.pc = "call", !.site = "panic", !.before = session.dir.files]
    /\ UNCHANGED <<app_vars, restore, run, batch, hot_undo>>

\* main.rs:75-79  the window is closed, launch returns and main cleans up.
Exit ==
    /\ session.pc = "running"
    /\ session' = [session EXCEPT !.pc = "call", !.site = "exit", !.before = session.dir.files]
    /\ UNCHANGED <<app_vars, restore, run, batch, hot_undo>>

NextSession ==
    \/ CleanupRemove
    \/ \E ok \in BOOLEAN : CleanupCreate(ok)
    \/ AfterCleanup
    \/ \E f \in BackupFiles : WriteBackup(f)
    \/ \E f \in BackupFiles : OpenBackup(f)
    \/ \E f \in BackupFiles : CloseBackup(f)
    \/ Panic
    \/ Exit

SpecSession == InitSession /\ [][NextSession]_vars

(* ============================== properties ============================= *)
Last(seq) == seq[Len(seq)]
HasEntry(id, kind) == \E k \in 1..Len(Msg(id).text) : Msg(id).text[k].kind = kind
EntriesOf(id, kind) == SelectSeq(Msg(id).text, LAMBDA e : e.kind = kind)

\* C1: once a record's backup_paths is Some, no step changes it (no later
\* confirmation, by the re-try button or by auto-repair, re-snapshots it).
C1_SnapshotSetImmutable ==
    [][\A id \in Ids :
          Msg(id).backup_paths.some
             => messages'[id + 1].backup_paths = Msg(id).backup_paths]_vars

\* A record that failed with its snapshot set stored has been confirmed
\* again, and that run skipped the snapshot and is executing.
C1_Witness ==
    \E t \in exec_tasks :
        /\ t.has_backup
        /\ t.pc = "exec"
        /\ Msg(t.msg_id).backup_paths.some
        /\ HasEntry(t.msg_id, "error")

\* C2: for every confirmation, the script is executing only after the
\* snapshot loop has gone through every file in scope and its result has
\* been recorded; a record never has two tasks, so snapshot and script of
\* the same operation never overlap.
C2_SnapshotBeforeScript ==
    /\ \A t \in exec_tasks :
          t.pc = "exec" =>
             /\ t.k = Len(t.files)
             /\ Len(t.backups) > 0 =>
                   Msg(t.msg_id).backup_paths = SomeBackup(t.backups)
    /\ \A t1, t2 \in exec_tasks : t1.msg_id = t2.msg_id => t1 = t2

\* A script is executing after both files in scope were backed up.
C2_Witness ==
    \E t \in exec_tasks :
        t.pc = "exec" /\ Len(t.files) = 2 /\ t.k = 2 /\ Len(t.backups) = 2

\* C3: at most one record is Running.
C3_AtMostOneRunning ==
    Cardinality({id \in Ids : Tag(id) = "Running"}) <= 1

\* C4: at most one of {snapshot, script execution, restore} is in progress.
C4_OneInFlight ==
    Cardinality(exec_tasks) + Len(undo_tasks) <= 1

LifecycleEdges ==
    {<<"WaitingConfirmation", "Running">>, <<"WaitingConfirmation", "Cancelled">>,
     <<"Running", "Success">>, <<"Running", "Error">>, <<"Error", "Running">>,
     <<"Success", "Undone">>, <<"Running", "Undone">>}

\* C5: every change of a record's status follows an edge of the lifecycle,
\* and a record starts as None, Loading or WaitingConfirmation.
C5_LifecycleEdgesOnly ==
    [][/\ \A id \in Ids :
             messages'[id + 1].status # Msg(id).status
                => <<Tag(id), messages'[id + 1].status.tag>> \in LifecycleEdges
       /\ \A i \in (Len(messages) + 1)..Len(messages') :
             messages'[i].status.tag \in {"None", "Loading", "WaitingConfirmation"}]_vars

\* C6: when an undo completes, every later record that was Success or
\* Running becomes Undone with the cascade note, every other later record
\* is left as it was, and a target that was Success becomes Undone.
C6_CascadeCorrect ==
    [][\A j \in 1..Len(undo_tasks), res \in UndoResults :
          UndoFinish(j, res) =>
             LET target == undo_tasks[j].target
             IN  /\ Tag(target) = "Success"
                       => messages'[target + 1].status = St("Undone")
                 /\ \A id \in Ids :
                       id > target =>
                          IF Tag(id) \in {"Success", "Running"}
                          THEN /\ messages'[id + 1].status = St("Undone")
                               /\ messages'[id + 1].text =
                                     Append(Msg(id).text, Entry("cascade", 0, ""))
                          ELSE messages'[id + 1] = Msg(id)]_vars

\* [A, B, C] after the undo of A: A undone with the restore's report, B
\* undone by the cascade, C still Error.
C6_Witness ==
    \E a, b, c \in Ids :
        /\ a < b /\ b < c
        /\ Tag(a) = "Undone" /\ Last(Msg(a).text).kind = "undo_ok"
        /\ Tag(b) = "Undone" /\ Last(Msg(b).text).kind = "cascade"
        /\ Tag(c) = "Error"

\* A record whose every run so far failed while no other record was touched.
C7_Scenario(id) ==
    /\ Msg(id).pending_code # NoCode
    /\ ~HasEntry(id, "result")
    /\ \A j \in Ids \ {id} : Tag(j) \in {"None", "WaitingConfirmation"}

\* C7: in that scenario the repair notes of the record are numbered 1, 2,
\* 3 and no more; each failure that appended a note signalled the repair
\* with the failure's diagnostic; the failure after the third repair
\* signals nothing, appends the give-up note and leaves the record Error
\* with that failure's diagnostic.
C7_RetryBound ==
    \A id \in Ids :
        C7_Scenario(id) =>
           LET text == Msg(id).text
               notes == EntriesOf(id, "repair")
           IN  /\ Len(notes) <= MAX_RETRIES
               /\ \A k \in 1..Len(notes) : notes[k].n = k
               /\ (Tag(id) = "Error" /\ Last(text).kind = "repair")
                     => error_fix_signal = SomeSignal(id, Msg(id).status.diag)
               /\ HasEntry(id, "giveup") =>
                     /\ Len(notes) = MAX_RETRIES
                     /\ Len(EntriesOf(id, "error")) = MAX_RETRIES + 1
                     /\ Last(text) = Entry("giveup", MAX_RETRIES, "")
                     /\ Msg(id).status = Error(text[Len(text) - 1].s)
                     /\ ~error_fix_signal.some

\* The fourth failure of the chain has given up.
C7_Witness ==
    \E id \in Ids :
        /\ C7_Scenario(id)
        /\ HasEntry(id, "giveup")
        /\ Tag(id) = "Error"

\* C8: a record confirmed by hand once gets at most MAX_RETRIES repair
\* cycles in its failure chain, whatever cancellations of other records are
\* interleaved (here no other record has been confirmed at all).
C8_PerChainBound ==
    \A id \in Ids :
        (\A j \in Ids \ {id} : Tag(j) \in {"None", "WaitingConfirmation", "Cancelled"})
           => Len(EntriesOf(id, "repair")) <= MAX_RETRIES

\* The restore has gone through and reported.
Restored == restore.pc = "done" /\ Last(restore.log).kind = "restored"

\* A sheet of the live workbook that the backup lacks.
IsExtra(sh) == restore.live0[sh].present /\ ~restore.backup[sh].present

C10_UndoIdempotent ==
    [][\A j \in 1..Len(undo_tasks), res \in UndoResults :
          (Tag(undo_tasks[j].target) = "Undone" /\ UndoFinish(j, res)) =>
             /\ \A id \in Ids : messages'[id + 1].status = Msg(id).status
             /\ Last(messages'[undo_tasks[j].target + 1].text).kind
                   = "nothing_to_restore"]_vars

\* C11: on_undo called for an executed record without a snapshot set
\* restores nothing, changes no record's status and reports "nothing to
\* restore" on the record.
C11_NothingToRestore ==
    \A id \in Ids :
        (Tag(id) = "Success" /\ ~Msg(id).backup_paths.some) =>
           /\ OnUndoTasks(id) = undo_tasks
           /\ \A j \in Ids : OnUndoMessages(id)[j + 1].status = Msg(j).status
           /\ Last(OnUndoMessages(id)[id + 1].text).kind = "nothing_to_restore"

\* Two texts that differ at most in the case of their letters.
SameIgnoringCase(a, b) ==
    /\ Len(a) = Len(b)
    /\ \A i \in 1..Len(a) :
          \/ a[i] = b[i]
          \/ \E k \in 1..Len(UpperLetters) :
                {a[i], b[i]} = {UpperLetters[k], LowerLetters[k]}

ContainsIgnoringCase(hay, needle) ==
    \E i \in 0..(Len(hay) - Len(needle)) :
        SameIgnoringCase(SubSeq(hay, i + 1, i + Len(needle)), needle)

TracebackMost == <<"T", "r", "a", "c", "e", "b", "a", "c", "k", " ", "(", "m", "o", "s", "t">>

\* C12: when the bridge reports no hard error, an output that holds none of
\* the failure keywords (in any letter case) yields success with that
\* output, and an output that holds "Traceback (most" anywhere, in any
\* letter case, yields failure.
C12_Classifier ==
    (run.pc = "done" /\ run.hard = "none") =>
       /\ (\A k \in 1..Len(error_keywords) :
              ~ContainsIgnoringCase(run.stdout, error_keywords[k]))
             => run.result = Ok(run.stdout)
       /\ ContainsIgnoringCase(run.stdout, TracebackMost) => ~run.result.ok

\* An output with the marker in capitals, after other text, was classified
\* as a failure.
C12_Witness ==
    /\ run.pc = "done" /\ run.hard = "none"
    /\ ContainsIgnoringCase(run.stdout, TracebackMost)
    /\ ~StrContains(run.stdout, TracebackMost)
    /\ Len(run.stdout) > Len(TracebackMost)
    /\ ~run.result.ok

\* C13: a record's snapshot set is stored before any attempt of the
\* operation has run, never by a later run of a record that has already
\* failed; and an undo of the record restores from the pairs stored on it.
C13_RepairThenUndo ==
    [][\A id \in Ids :
          /\ (~Msg(id).backup_paths.some /\ messages'[id + 1].backup_paths.some)
                => ~HasEntry(id, "error")
          /\ \A j \in 1..Len(undo_tasks') :
                (j > Len(undo_tasks) /\ undo_tasks'[j].target = id)
                   => undo_tasks'[j].pairs = Msg(id).backup_paths.pairs]_vars

\* C14: a record has a snapshot set exactly when its status is, or has
\* been, Running (every status after Running shows it: Success, Error,
\* Undone).
C14_SnapshotIffRan ==
    \A id \in Ids :
        Msg(id).backup_paths.some
           <=> Tag(id) \in {"Running", "Success", "Error", "Undone"}

\* C15: a record becomes Cancelled only from WaitingConfirmation; a record
\* with a run in flight is not Cancelled, and a run in flight ends only by
\* writing its outcome, Success or Error, to its record.
C15_CancelOnlyWhileWaiting ==
    [][/\ \A id \in Ids :
             (Tag(id) # "Cancelled" /\ messages'[id + 1].status.tag = "Cancelled")
                => Tag(id) = "WaitingConfirmation"
       /\ \A t \in exec_tasks' : messages'[t.msg_id + 1].status.tag # "Cancelled"
       /\ \A t \in exec_tasks :
             (\A u \in exec_tasks' : u.msg_id # t.msg_id)
                => /\ t.pc = "exec"
                   /\ messages'[t.msg_id + 1].status.tag \in {"Success", "Error"}]_vars

\* One record was cancelled and another ran to its outcome.
C15_Witness ==
    \E a, b \in Ids :
        /\ Tag(a) = "Cancelled"
        /\ Tag(b) \in {"Success", "Error"}
        /\ \A t \in exec_tasks : t.msg_id # b

\* C16: a Cancelled record holds no code, and no step changes its status
\* or gives it code again; confirming it would leave it as it is and spawn
\* nothing for lack of code, an undo of it would restore nothing, and the
\* cascade passes over it.
C16_CancelledTerminal ==
    [][\A id \in Ids :
          Tag(id) = "Cancelled" =>
             /\ Msg(id).pending_code = NoCode
             /\ messages'[id + 1].status = St("Cancelled")
             /\ messages'[id + 1].pending_code = NoCode
             /\ ConfirmStatus(Msg(id)) = Msg(id)
             /\ OnUndoTasks(id) = undo_tasks
             /\ \A target \in 0..id, res \in UndoResults :
                   Cascade(messages, target, res)[id + 1] = Msg(id)]_vars

\* The undo of an earlier record has cascaded past a cancelled one.
C16_Witness ==
    \E a, b \in Ids :
        /\ a < b
        /\ Tag(a) = "Undone"
        /\ Tag(b) = "Cancelled"

\* C17: once a record is Undone, by its own undo or by the cascade, no
\* step changes its status; the return of a run that was in flight when the
\* cascade hit it does not.
C17_UndoneTerminal ==
    [][\A id \in Ids :
          Tag(id) = "Undone" => messages'[id + 1].status = St("Undone")]_vars

KindCount(text, kind) == Len(SelectSeq(text, LAMBDA e : e.kind = kind))

\* The record's last run gave up.
GaveUp(id) == Tag(id) = "Error" /\ Last(Msg(id).text).kind = "giveup"

\* C18 as written: once the give-up branch has run for a record, its status
\* stays Error(diagnostic) and never returns to Running.
C18_AsWritten ==
    [][\A id \in Ids :
          GaveUp(id) => messages'[id + 1].status = Msg(id).status]_vars

\* C18, amended: the give-up branch runs on a failure with the counter at
\* MAX_RETRIES, signals no repair and leaves the record Error with that
\* failure's diagnostic; after it the status changes only to Running, by a
\* click on the re-try button (the counter is reset to 0 and no repair
\* signal is consumed), never by an auto-repair run.
C18_GiveUpUntilRetryClick ==
    [][\A id \in Ids :
          /\ GaveUp(id) =>
                \/ messages'[id + 1].status = Msg(id).status
                \/ /\ messages'[id + 1].status = St("Running")
                   /\ error_fix_signal' = error_fix_signal
                   /\ retry_count' = 0
          /\ KindCount(messages'[id + 1].text, "giveup")
                 > KindCount(Msg(id).text, "giveup") =>
                /\ retry_count = MAX_RETRIES
                /\ error_fix_signal' = error_fix_signal
                /\ messages'[id + 1].status.tag = "Error"
                /\ messages'[id + 1].status.diag
                      = messages'[id + 1].text[Len(messages'[id + 1].text) - 1].s]_vars

\* A record that gave up is running again.
C18_Witness ==
    \E id \in Ids :
        /\ HasEntry(id, "giveup")
        /\ Tag(id) = "Running"

\* C19  The target record of an undo is set to Undone only when the restore
\* of its snapshot pairs succeeded: a step in which run_batch_hot_undo
\* returned an error (the target receives the "undo_err" entry) leaves the
\* target's status different from Undone.
C19_UndoneOnlyWhenRestored ==
    [][\A id \in Ids :
          /\ Len(messages'[id + 1].text) > Len(Msg(id).text)
          /\ Last(messages'[id + 1].text).kind = "undo_err"
          => messages'[id + 1].status.tag # "Undone"]_vars

\* The pairs of the files whose backup this call wrote, in request order.
WrittenPairs(b) ==
    LET idx == SelectSeq([i \in 1..Len(b.written) |-> i], LAMBDA i : b.written[i])
    IN  [j \in 1..Len(idx) |->
            <<b.target_paths[idx[j]], BackupPath(b.target_paths[idx[j]], b.timestamp)>>]

\* C20  Snapshot is best-effort: when create_batch_backups has returned,
\* every requested file has been tried, and the result holds a pair
\* (original, backup) exactly for the requested files whose backup file was
\* written, in request order.
C20_PairsExactlyWritten ==
    batch.pc = "returned" =>
        /\ batch.k = Len(batch.target_paths)
        /\ batch.backups = WrittenPairs(batch)

\* A step that cancels a record.
CancelStep ==
    \E id \in Ids : Tag(id) # "Cancelled" /\ messages'[id + 1].status.tag = "Cancelled"

\* A step of an undo: the restore is spawned, or it returns and the cascade
\* runs.
UndoStep == undo_tasks' # undo_tasks

\* C21  The retry controller never retries on cancellation or undo: a step
\* of on_cancel or of on_undo (the restore's success or failure included)
\* leaves error_fix_signal as it was and does not raise the retry counter.
C21_NoRetryOnCancelOrUndo ==
    [][CancelStep \/ UndoStep =>
          /\ error_fix_signal' = error_fix_signal
          /\ retry_count' <= retry_count]_vars

\* A record was cancelled and an undo whose restore failed has finished.
C21_Witness ==
    /\ \E id \in Ids : Tag(id) = "Cancelled"
    /\ \E id \in Ids : HasEntry(id, "undo_err")

\* A step of on_manual_confirm: a record with a confirm or re-try button
\* starts running and no repair signal is consumed.
ManualConfirmStep ==
    \E id \in Ids :
        /\ Tag(id) \in {"WaitingConfirmation", "Error"}
        /\ messages'[id + 1].status.tag = "Running"
        /\ error_fix_signal' = error_fix_signal

\* A step in which an execution ends in Success.
SuccessStep ==
    \E id \in Ids : Tag(id) # "Success" /\ messages'[id + 1].status.tag = "Success"

\* C22  The retry counter is zero immediately after the user manually
\* confirms an operation and immediately after an execution ends in
\* Success.
C22_CounterReset ==
    [][ManualConfirmStep \/ SuccessStep => retry_count' = 0]_vars

\* A record succeeded on a repair run, after the counter had been raised.
C22_Witness ==
    /\ retry_count = 0
    /\ \E id \in Ids : HasEntry(id, "repair") /\ Tag(id) = "Success"

\* The words looked for on the error stream, and the markers looked for on
\* the output.
WordError == <<"e", "r", "r", "o", "r">>
WordException == <<"e", "x", "c", "e", "p", "t", "i", "o", "n">>
WordTraceback == <<"t", "r", "a", "c", "e", "b", "a", "c", "k">>
WordFailed == <<"f", "a", "i", "l", "e", "d">>
MarkNotFound == <<"n", "o", "t", " ", "f", "o", "u", "n", "d">>
MarkFailedTo == <<"f", "a", "i", "l", "e", "d", " ", "t", "o">>
MarkGlyph == <<"U+274C">>

\* The markers of a soft failure, as the property names them.
SoftMarkers ==
    {WordError \o <<":">>, WordException \o <<":">>, TracebackMost,
     MarkFailedTo, <<"a", "t", "t", "r", "i", "b", "u", "t", "e">> \o WordError,
     <<"k", "e", "y">> \o WordError, <<"v", "a", "l", "u", "e">> \o WordError,
     MarkNotFound, MarkGlyph}

\* The script ran to completion and the call has returned.
RanToCompletion == run.pc = "done" /\ run.hard = "none"

C24_StderrDetected ==
    (/\ RanToCompletion
     /\ Len(run.stderr) > 0
     /\ \E kw \in {WordError, WordException, WordTraceback, WordFailed} :
           ContainsIgnoringCase(run.stderr, kw))
       => /\ ~run.result.ok
          /\ run.result.s = run.stderr

\* C25  Hard failure takes precedence: when py.run reports an exception the
\* call returns a failure whatever the captured output holds, and the
\* diagnostic holds the bridge's error text and the text the script had
\* written to its error stream before failing.
C25_HardFailure ==
    (run.pc = "done" /\ run.hard = "exception") =>
        /\ ~run.result.ok
        /\ StrContains(run.result.s, <<"Runtime Exception">>)
        /\ StrContains(run.result.s, run.stderr)

\* The sheets of the backup are in the file, with the backup's contents.
HoldsBackup ==
    \A sh \in Sheets :
        restore.backup[sh].present =>
            /\ restore.target[sh].present
            /\ restore.target[sh].data = restore.backup[sh].data

\* C26  Restore method fallback: a pair whose file a live session holds
\* open is restored through the session, and a pair whose file is not open
\* is restored by a copy of the backup; either way, once the restore of the
\* pair is over without an error the file holds the backup's contents.
C26_RestoreFallback ==
    (restore.pc = "done" /\ Last(restore.log).kind # "failed") => HoldsBackup

\* C28  Authoritative restore: after a restore through the live session has
\* gone through, every sheet of the backup is in the live workbook
\* (re-created when it had been deleted) with the backup sheet's contents,
\* whatever the live sheet held before.
C28_AuthoritativeRestore ==
    (restore.open /\ Restored) => HoldsBackup

C30_BackupPathsDistinct ==
    \A i, j \in 1..Len(batch.backups) :
        batch.backups[i][2] = batch.backups[j][2] => i = j

IsPrefix(a, b) == Len(a) <= Len(b) /\ SubSeq(b, 1, Len(a)) = a

\* C31  The log of a record is append-only: across every step, those of
\* on_confirm, on_cancel and on_undo included, the text a record had is a
\* prefix of the text it has after.
C31_TextAppendOnly ==
    [][\A id \in Ids : IsPrefix(Msg(id).text, messages'[id + 1].text)]_vars

\* A record whose text received the result of its run and then the outcome
\* of its undo.
C31_Witness ==
    \E id \in Ids :
        /\ HasEntry(id, "result")
        /\ Last(Msg(id).text).kind \in {"undo_ok", "undo_err"}

\* C32  Every execution failure is recorded and numbered: a step in which a
\* run of a record ends in failure appends the diagnostic to the record's
\* text and leaves the status Error with that diagnostic; when the step
\* signals a repair, the signal carries the same diagnostic and the note
\* appended is numbered one more than the record's previous repair note (1
\* for the first), between 1 and MAX_RETRIES.
C32_FailuresNumbered ==
    [][\A id \in Ids :
          LET old == Msg(id).text
              new == messages'[id + 1].text
          IN  (Len(new) > Len(old) /\ new[Len(old) + 1].kind = "error") =>
                 /\ messages'[id + 1].status = Error(new[Len(old) + 1].s)
                 /\ Last(new).kind = "repair" =>
                       /\ error_fix_signal' = SomeSignal(id, new[Len(old) + 1].s)
                       /\ Last(new).n = Len(EntriesOf(id, "repair")) + 1
                       /\ Last(new).n \in 1..MAX_RETRIES]_vars

\* C33  Record ids are unique and monotonically assigned: in every state
\* the record at index i carries id i, the tasks in flight hold the id of
\* a record of the list, and no step removes or renumbers a record.
C33_IdsArePositions ==
    /\ [](/\ \A id \in Ids : Msg(id).id = id
          /\ \A t \in exec_tasks : t.msg_id \in Ids
          /\ \A j \in 1..Len(undo_tasks) : undo_tasks[j].target \in Ids)
    /\ [][/\ Len(messages') >= Len(messages)
          /\ \A id \in Ids : messages'[id + 1].id = Msg(id).id]_vars

\* The list holds a file record and, after it, an operation whose run has
\* been recorded on it.
C33_Witness ==
    \E a, b \in Ids :
        /\ a < b
        /\ Msg(a).text[1].kind = "file"
        /\ Msg(b).text[1].kind = "reply"
        /\ HasEntry(b, "result")

\* C34  Liveness: when every bridge call returns, every record that is
\* Running eventually has the outcome of its execution recorded as Success
\* or Error.
C34_RunningEndsRecorded ==
    \A id \in 0..(MaxMsgsLive - 1) :
        (id \in Ids /\ Tag(id) = "Running")
           ~> (id \in Ids /\ Tag(id) \in {"Success", "Error"})

\* A record went through its snapshot and its run, and the outcome is on
\* it.
C34_Witness ==
    \E id \in Ids :
        /\ Tag(id) \in {"Success", "Error"}
        /\ Msg(id).backup_paths.some
        /\ \A t \in exec_tasks : t.msg_id # id

\* C35  Session cleanup: cleanup_backups runs at process start, at normal
\* exit and in the panic hook, and when it returns the backup directory
\* exists and holds no backup file from before the call.
C35_DirectoryReset ==
    /\ session.pc \in {"call", "removed", "returned"} => session.site \in {"start", "exit", "panic"}
    /\ session.pc = "returned" =>
          /\ session.dir.exists
          /\ session.dir.files \cap session.before = {}

\* C36  Undo cascade frame: an undo of target t changes neither the status,
\* the code nor the snapshot set of a record before t, nor the status of a
\* later record that is WaitingConfirmation, None or Loading; its
\* synchronous part changes no record at all.
C36_CascadeFrame ==
    [][/\ Len(undo_tasks') > Len(undo_tasks) => messages' = messages
       /\ \A j \in 1..Len(undo_tasks) :
             undo_tasks' = RemoveAt(undo_tasks, j) =>
                \A id \in Ids :
                   LET t == undo_tasks[j].target
                       new == messages'[id + 1]
                   IN  /\ id < t =>
                            /\ new.status = Msg(id).status
                            /\ new.pending_code = Msg(id).pending_code
                            /\ new.backup_paths = Msg(id).backup_paths
                       /\ (id >= t /\ Tag(id) \in {"WaitingConfirmation", "None", "Loading"}) =>
                            new.status = Msg(id).status]_vars

\* An undo has run on a record that has a run or finished operation before
\* it and an operation waiting for confirmation after it.
C36_Witness ==
    \E t \in Ids :
        /\ Tag(t) = "Undone"
        /\ Last(Msg(t).text).kind \in {"undo_ok", "undo_err"}
        /\ \E a \in Ids : a < t /\ Tag(a) \in {"Success", "Running"}
        /\ \E b \in Ids : b > t /\ Tag(b) = "WaitingConfirmation"

\* C37  on_confirm called for a record that holds no code (for one, a
\* cancelled record) executes nothing and takes no snapshot: no task is
\* spawned, and the record's status and snapshot set and every other record
\* stay as they are.
C37_NoCodeNoRun ==
    \A id \in Ids :
        Msg(id).pending_code = NoCode =>
           \A ts \in Times :
              /\ OnConfirmTasks(messages, id, ts) = exec_tasks
              /\ OnConfirmMessages(messages, id) = messages

\* A cancelled record, its code cleared, next to a record whose run is in
\* flight.
C37_Witness ==
    \E id \in Ids :
        /\ Tag(id) = "Cancelled"
        /\ Msg(id).pending_code = NoCode
        /\ \E t \in exec_tasks : t.msg_id # id

\* C38  In every reachable state the retry counter is within
\* 0..MAX_RETRIES, whatever the order of completions, manual confirmations
\* and cancellations.
C38_RetryCountInRange == retry_count \in 0..MAX_RETRIES

\* The counter has reached the bound while another run is still in flight.
C38_Witness == retry_count = MAX_RETRIES /\ exec_tasks # {}

\* C39  A record's backup_paths is never Some of an empty list: it is None
\* or holds at least one (original, backup) pair, so the undo button is
\* only there when there is something to restore.
C39_NoEmptySnapshotSet ==
    \A id \in Ids :
        /\ Msg(id).backup_paths.some => Len(Msg(id).backup_paths.pairs) >= 1
        /\ UndoButtonShown(id) => Len(Msg(id).backup_paths.pairs) >= 1

\* A snapshot over the files in scope came back empty and the script runs
\* on a record left without a snapshot set, next to a record that holds one.
C39_Witness ==
    /\ \E t \in exec_tasks :
          /\ t.pc = "exec"
          /\ Len(t.files) > 0
          /\ t.backups = <<>>
          /\ ~Msg(t.msg_id).backup_paths.some
    /\ \E id \in Ids : UndoButtonShown(id)

====
